---------------------------- MODULE Spec2Model ----------------------------
(***************************************************************************)
(* Model of src/blowfish.py: the bcrypt orchestrator (gensalt, hashpw),    *)
(* the salt-text encoder and the bcrypt base64 codec.                      *)
(*                                                                         *)
(* Text is a sequence of one-character strings, binary data a sequence of  *)
(* integers 0..255.  The source is Python 2 (string.maketrans, xrange),    *)
(* so "/" on integers is floor division and base64.b64decode is the        *)
(* lenient binascii.a2b_base64 that skips characters outside its alphabet. *)
(*                                                                         *)
(* The EksBlowfish class is imported from a module that is not part of     *)
(* src/; its two methods are modelled from the specification as an         *)
(* abstract deterministic state transformer (BlowfishInit, expandkey,      *)
(* cipher).                                                                *)
(***************************************************************************)
EXTENDS Integers, Sequences, FiniteSets, TLC

VARIABLES
    pc,        \* pc[c]: position of hashpw call c
    loc,       \* loc[c]: the local variables of hashpw call c
    bf,        \* bf[s]: the cipher state held in slot s (NoBf: none created)
    log,       \* log[c]: the calls made on the cipher object by call c
    err,       \* err[c]: the exception raised by call c ("" when none)
    ret,       \* ret[c]: the text returned by call c
    genCost,   \* argument of the last gensalt call
    genOut,    \* outcome of the last gensalt call: [err, text]
    data,      \* codec harness: the byte string under test
    enc,       \* codec harness: _b64_encode(data)
    dec,       \* codec harness: result of _b64_decode(enc)
    cpc,       \* codec harness: position
    gpc        \* position of the gensalt call

vars == <<pc, loc, bf, log, err, ret, genCost, genOut, data, enc, dec, cpc, gpc>>

---------------------------------------------------------------------------
(* Bounds of the exploration *)

MaxPwLen == 2        \* passwords have 0..MaxPwLen bytes
MaxLogRounds == 5    \* largest cost whose 2^cost loop is run to the end
MaxGenCost == 33     \* gensalt is called with costs -MaxNegCost..MaxGenCost
MaxNegCost == 3
MaxDataLen == 3      \* codec harness: byte strings of 0..MaxDataLen bytes

---------------------------------------------------------------------------
(* Characters *)

\* Printable ASCII, codes 32..95; Ord gives the character code that Python
\* compares strings by.
Ascii ==
  <<" ", "!", "\"", "#", "$", "%", "&", "'", "(", ")", "*", "+", ",", "-", ".", "/",
    "0", "1", "2", "3", "4", "5", "6", "7", "8", "9", ":", ";", "<", "=", ">", "?",
    "@", "A", "B", "C", "D", "E", "F", "G", "H", "I", "J", "K", "L", "M", "N", "O",
    "P", "Q", "R", "S", "T", "U", "V", "W", "X", "Y", "Z", "[", "\\", "]", "^", "_">>

\* Code 97 first (code 96, the backquote, is left out).
AsciiLower ==
  <<"a", "b", "c", "d", "e", "f", "g", "h", "i", "j", "k", "l", "m", "n", "o",
    "p", "q", "r", "s", "t", "u", "v", "w", "x", "y", "z", "{", "|", "}", "~">>

IndexOf(seq, x) == CHOOSE i \in 1..Len(seq) : seq[i] = x

Contains(seq, x) == \E i \in 1..Len(seq) : seq[i] = x

Ord(ch) ==
  IF Contains(Ascii, ch) THEN 31 + IndexOf(Ascii, ch)
  ELSE 96 + IndexOf(AsciiLower, ch)

Digits == <<"0", "1", "2", "3", "4", "5", "6", "7", "8", "9">>

---------------------------------------------------------------------------
(* Module constants *)

BCRYPT_VERSION == <<"2", "a">>

BCRYPT_SALTLEN == 16

BCRYPT_MAGICTEXT ==
  <<79, 114, 112, 104, 101, 97, 110, 66, 101, 104, 111, 108,
    100, 101, 114, 83, 99, 114, 121, 68, 111, 117, 98, 116>>

BCRYPT_BLOCKS == (Len(BCRYPT_MAGICTEXT) * 8) \div 32

BCRYPT_MINROUNDS == 16

B64_CHARS ==
  <<"A", "B", "C", "D", "E", "F", "G", "H", "I", "J", "K", "L", "M", "N", "O", "P",
    "Q", "R", "S", "T", "U", "V", "W", "X", "Y", "Z", "a", "b", "c", "d", "e", "f",
    "g", "h", "i", "j", "k", "l", "m", "n", "o", "p", "q", "r", "s", "t", "u", "v",
    "w", "x", "y", "z", "0", "1", "2", "3", "4", "5", "6", "7", "8", "9", "+", "/">>

B64_CHARS_BCRYPT ==
  <<".", "/", "A", "B", "C", "D", "E", "F", "G", "H", "I", "J", "K", "L", "M", "N",
    "O", "P", "Q", "R", "S", "T", "U", "V", "W", "X", "Y", "Z", "a", "b", "c", "d",
    "e", "f", "g", "h", "i", "j", "k", "l", "m", "n", "o", "p", "q", "r", "s", "t",
    "u", "v", "w", "x", "y", "z", "0", "1", "2", "3", "4", "5", "6", "7", "8", "9">>

\* str.translate(maketrans(from, to), deletechars): drop the characters of
\* deletechars, map a character of `from` to the one at the same index of
\* `to`, leave every other character alone.
Translate(text, from, to, deletechars) ==
  LET Keep(ch) == ch \notin deletechars
      kept == SelectSeq(text, Keep)
  IN  [i \in 1..Len(kept) |->
         IF Contains(from, kept[i]) THEN to[IndexOf(from, kept[i])] ELSE kept[i]]

B64_TO_BCRYPT(text, deletechars) ==
  Translate(text, B64_CHARS, B64_CHARS_BCRYPT, deletechars)

B64_FROM_BCRYPT(text) == Translate(text, B64_CHARS_BCRYPT, B64_CHARS, {})

---------------------------------------------------------------------------
(* Standard base64 (Python 2 base64 / binascii) *)

RECURSIVE b64encode(_)
b64encode(s) ==
  IF Len(s) = 0 THEN <<>>
  ELSE LET c1 == B64_CHARS[(s[1] \div 4) + 1] IN
    IF Len(s) = 1
    THEN <<c1, B64_CHARS[((s[1] % 4) * 16) + 1], "=", "=">>
    ELSE LET c2 == B64_CHARS[((s[1] % 4) * 16) + (s[2] \div 16) + 1] IN
      IF Len(s) = 2
      THEN <<c1, c2, B64_CHARS[((s[2] % 16) * 4) + 1], "=">>
      ELSE <<c1, c2,
             B64_CHARS[((s[2] % 16) * 4) + (s[3] \div 64) + 1],
             B64_CHARS[(s[3] % 64) + 1]>>
           \o b64encode(SubSeq(s, 4, Len(s)))

\* table_a2b_base64: the 64 symbols and the pad character are "valid".
B64Valid(ch) == Contains(B64_CHARS, ch) \/ ch = "="

\* binascii_find_valid(s, slen, num): the (num+1)th valid character at or
\* after position pos, "" when there is none.
RECURSIVE binascii_find_valid(_, _, _)
binascii_find_valid(s, pos, num) ==
  IF pos > Len(s) THEN ""
  ELSE IF B64Valid(s[pos])
       THEN IF num = 0 THEN s[pos]
            ELSE binascii_find_valid(s, pos + 1, num - 1)
       ELSE binascii_find_valid(s, pos + 1, num)

\* binascii.a2b_base64: characters outside the alphabet are skipped, a pad
\* sequence ends the input, leftover bits are "Incorrect padding".
RECURSIVE a2b_base64(_, _, _, _, _, _)
a2b_base64(s, pos, quad_pos, leftbits, leftchar, out) ==
  IF pos > Len(s)
  THEN [ok |-> leftbits = 0, bytes |-> IF leftbits = 0 THEN out ELSE <<>>]
  ELSE LET ch == s[pos] IN
    IF ch \in {" "}
    THEN a2b_base64(s, pos + 1, quad_pos, leftbits, leftchar, out)
    ELSE IF ch = "="
    THEN IF quad_pos < 2
            \/ (quad_pos = 2 /\ binascii_find_valid(s, pos, 1) # "=")
         THEN a2b_base64(s, pos + 1, quad_pos, leftbits, leftchar, out)
         ELSE [ok |-> TRUE, bytes |-> out]
    ELSE IF ~Contains(B64_CHARS, ch)
    THEN a2b_base64(s, pos + 1, quad_pos, leftbits, leftchar, out)
    ELSE LET lc == (leftchar * 64) + (IndexOf(B64_CHARS, ch) - 1)
             lb == leftbits + 6
             qp == (quad_pos + 1) % 4
         IN  IF lb >= 8
             THEN a2b_base64(s, pos + 1, qp, lb - 8, lc % (2 ^ (lb - 8)),
                             Append(out, (lc \div (2 ^ (lb - 8))) % 256))
             ELSE a2b_base64(s, pos + 1, qp, lb, lc, out)

\* base64.b64decode: a2b_base64, its binascii.Error re-raised as TypeError.
b64decode(s) == a2b_base64(s, 1, 0, 0, 0, <<>>)

---------------------------------------------------------------------------
(* bcrypt codec *)

_b64_encode(d) == B64_TO_BCRYPT(b64encode(d), {"="})

Repeat(ch, n) == [i \in 1..n |-> ch]

PaddingNone(len) == <<>>

Padding(len) == IF len % 4 # 0 THEN Repeat("=", 4 - (len % 4)) ELSE <<>>

_b64_decode(text) == b64decode(B64_FROM_BCRYPT(text) \o Padding(Len(text)))

---------------------------------------------------------------------------
(* Python built-ins used by hashpw and _encode_salt *)

FirstIndex(text, sep) ==
  CHOOSE i \in 1..Len(text) :
    text[i] = sep /\ \A j \in 1..(i - 1) : text[j] # sep

\* str.split(sep): one field more than there are separators.
RECURSIVE Split(_, _)
Split(text, sep) ==
  IF ~Contains(text, sep) THEN <<text>>
  ELSE LET i == FirstIndex(text, sep)
       IN  <<SubSeq(text, 1, i - 1)>> \o Split(SubSeq(text, i + 1, Len(text)), sep)

RECURSIVE Strip(_)
Strip(text) ==
  IF Len(text) = 0 THEN text
  ELSE IF text[1] = " " THEN Strip(Tail(text))
  ELSE IF text[Len(text)] = " " THEN Strip(SubSeq(text, 1, Len(text) - 1))
  ELSE text

RECURSIVE DigitsValue(_)
DigitsValue(text) ==
  IF Len(text) = 0 THEN 0
  ELSE (DigitsValue(SubSeq(text, 1, Len(text) - 1)) * 10)
       + (IndexOf(Digits, text[Len(text)]) - 1)

\* int(text): surrounding blanks, an optional sign, at least one decimal
\* digit; anything else is a ValueError.
int(text) ==
  LET t == Strip(text)
      signed == Len(t) > 0 /\ t[1] \in {"+", "-"}
      body == IF signed THEN Tail(t) ELSE t
      good == Len(body) > 0 /\ \A i \in 1..Len(body) : Contains(Digits, body[i])
  IN  [ok |-> good,
       val |-> IF ~good THEN 0
               ELSE IF signed /\ t[1] = "-" THEN 0 - DigitsValue(body)
               ELSE DigitsValue(body)]

RECURSIVE Decimal(_)
Decimal(n) ==
  IF n < 10 THEN <<Digits[n + 1]>>
  ELSE Decimal(n \div 10) \o <<Digits[(n % 10) + 1]>>

\* '{:02d}'.format(n): sign-aware zero padding to width 2.
Format02d(n) ==
  IF n < 0 THEN <<"-">> \o Decimal(0 - n)
  ELSE IF n < 10 THEN <<"0">> \o Decimal(n)
  ELSE Decimal(n)

\* Tuple comparison a > b of two pairs of characters.
TupleGT(a, b) ==
  \/ Ord(a[1]) > Ord(b[1])
  \/ Ord(a[1]) = Ord(b[1]) /\ Ord(a[2]) > Ord(b[2])

Min(a, b) == IF a < b THEN a ELSE b

Max(a, b) == IF a > b THEN a ELSE b

\* struct.unpack('>' + 'I' * n, bytes): big-endian 32-bit words, each kept
\* as <<high 16 bits, low 16 bits>>.
Unpack(bytes) ==
  [j \in 1..(Len(bytes) \div 4) |->
     <<(bytes[(4 * j) - 3] * 256) + bytes[(4 * j) - 2],
       (bytes[(4 * j) - 1] * 256) + bytes[4 * j]>>]

\* struct.pack('>' + 'I' * n, *words)
Pack(words) ==
  [j \in 1..(4 * Len(words)) |->
     LET w == words[((j - 1) \div 4) + 1]
         r == (j - 1) % 4
     IN  IF r = 0 THEN w[1] \div 256
         ELSE IF r = 1 THEN w[1] % 256
         ELSE IF r = 2 THEN w[2] \div 256
         ELSE w[2] % 256]

---------------------------------------------------------------------------
(* EksBlowfish, modelled from the specification (sections 4.1, 4.2) as an   *)
(* abstract cipher state: a number below CipherMod that every expansion     *)
(* replaces by a function of the old state, the salt and the first keylen   *)
(* key bytes, and that the block cipher reads without changing.             *)

CipherMod == 65521

NoBf == 0 - 1

BlowfishInit == 3141

\* Byte j (from 0) of a Python string buffer: the bytes, then the NUL that
\* terminates the buffer.
KeyByte(key, j) == IF j < Len(key) THEN key[j + 1] ELSE 0

RECURSIVE KeySum(_, _)
KeySum(key, keylen) ==
  IF keylen = 0 THEN 0
  ELSE KeySum(key, keylen - 1) + (KeyByte(key, keylen - 1) * keylen)

expandkey(s, salted, salt, key, keylen) ==
  LET x == ((s * 31) + KeySum(key, keylen) + keylen) % CipherMod
  IN  IF salted /\ Len(salt) > 0
      THEN ((x * 17) + KeySum(salt, Len(salt)) + 1) % CipherMod
      ELSE (x * 17) % CipherMod

cipher(s, L, R) ==
  << <<(R[1] + s) % 65536, (R[2] + L[1]) % 65536>>,
     <<(L[2] + (3 * s) + 1) % 65536, (L[1] + R[1]) % 65536>> >>

---------------------------------------------------------------------------
(* _encode_salt and gensalt *)

\* The 16-byte strings os.urandom(16) is taken to return.
Urandom16 ==
  { [i \in 1..16 |-> 255], [i \in 1..16 |-> (i * 37) % 256] }

_encode_salt(csalt, log_rounds) ==
  IF Len(csalt) # BCRYPT_SALTLEN
  THEN [err |-> "ValueError", text |-> <<>>]
  ELSE IF log_rounds < 4 \/ log_rounds > 31
  THEN [err |-> "ValueError", text |-> <<>>]
  ELSE [err |-> "",
        text |-> <<"$", BCRYPT_VERSION[1], BCRYPT_VERSION[2], "$">>
                 \o Format02d(log_rounds) \o <<"$">> \o _b64_encode(csalt)]

ClampNone(log_rounds) == log_rounds

Clamp(log_rounds) == Min(Max(log_rounds, 4), 31)

gensalt(rnd, log_rounds) == _encode_salt(rnd, Clamp(log_rounds))

---------------------------------------------------------------------------
(* Codec harness: encode a byte string, then decode the text *)

CodecBytes == {0, 65, 190, 255}

ByteStrings(bytes, maxlen) ==
  UNION {[1..n -> bytes] : n \in 0..maxlen}

NoDec == [ok |-> FALSE, bytes |-> <<>>]

B64Encode ==
  /\ cpc = "start"
  /\ enc' = _b64_encode(data)
  /\ cpc' = "encoded"
  /\ UNCHANGED <<pc, loc, bf, log, err, ret, genCost, genOut, gpc, data, dec>>

B64Decode ==
  /\ cpc = "encoded"
  /\ dec' = _b64_decode(enc)
  /\ cpc' = "decoded"
  /\ UNCHANGED <<pc, loc, bf, log, err, ret, genCost, genOut, gpc, data, enc>>

---------------------------------------------------------------------------
(* hashpw, one action per statement *)

Calls == {1, 2}

NoLoc ==
  [password |-> <<>>, salt |-> <<>>, hash_ver |-> <<>>, log_rounds |-> <<>>,
   b64salt |-> <<>>, major |-> "", minor |-> "", n |-> 0, rounds |-> 0,
   raw_salt |-> <<>>, key_len |-> 0, k |-> 0, i |-> 0, d |-> 0,
   ctext |-> <<>>, result |-> <<>>]

Others == <<genCost, genOut, gpc, data, enc, dec, cpc>>

\* The cipher object a call works on: the local variable bf of its own frame.
BfSlotShared(c) == 1

BfSlot(c) == c

\* hashpw(password, salt) is entered.  A salt whose cost field would run
\* more than 2^MaxLogRounds loop iterations is not explored.
Runnable(salt) ==
  LET f == Split(salt, "$")
  IN  Len(f) = 4 /\ int(f[3]).ok
        => int(f[3]).val \notin (MaxLogRounds + 1)..31

CallHashpw(c, password, salt) ==
  /\ pc[c] = "idle"
  /\ Runnable(salt)
  /\ loc' = [loc EXCEPT ![c] = [NoLoc EXCEPT !.password = password, !.salt = salt]]
  /\ pc' = [pc EXCEPT ![c] = "split"]
  /\ UNCHANGED <<bf, log, err, ret, Others>>

\* line 70: (_, hash_ver, log_rounds, b64salt) = salt.split('$')
SplitSalt(c) ==
  /\ pc[c] = "split"
  /\ LET f == Split(loc[c].salt, "$")
     IN  IF Len(f) # 4
         THEN /\ err' = [err EXCEPT ![c] = "FormatError"]
              /\ pc' = [pc EXCEPT ![c] = "raised"]
              /\ UNCHANGED loc
         ELSE /\ loc' = [loc EXCEPT ![c].hash_ver = f[2],
                                    ![c].log_rounds = f[3],
                                    ![c].b64salt = f[4]]
              /\ pc' = [pc EXCEPT ![c] = "unpack_ver"]
              /\ UNCHANGED err
  /\ UNCHANGED <<bf, log, ret, Others>>

\* line 71: (major, minor) = tuple(hash_ver)
UnpackVersion(c) ==
  /\ pc[c] = "unpack_ver"
  /\ IF Len(loc[c].hash_ver) # 2
     THEN /\ err' = [err EXCEPT ![c] = "FormatError"]
          /\ pc' = [pc EXCEPT ![c] = "raised"]
          /\ UNCHANGED loc
     ELSE /\ loc' = [loc EXCEPT ![c].major = loc[c].hash_ver[1],
                                ![c].minor = loc[c].hash_ver[2]]
          /\ pc' = [pc EXCEPT ![c] = "check_ver"]
          /\ UNCHANGED err
  /\ UNCHANGED <<bf, log, ret, Others>>

VersionExceedsEither(major, minor) ==
  Ord(major) > Ord(BCRYPT_VERSION[1]) \/ Ord(minor) > Ord(BCRYPT_VERSION[2])

VersionExceeds(major, minor) == TupleGT(<<major, minor>>, BCRYPT_VERSION)

\* lines 73-74
CheckVersion(c) ==
  /\ pc[c] = "check_ver"
  /\ IF VersionExceeds(loc[c].major, loc[c].minor)
     THEN /\ err' = [err EXCEPT ![c] = "VersionError"]
          /\ pc' = [pc EXCEPT ![c] = "raised"]
     ELSE /\ pc' = [pc EXCEPT ![c] = "parse_rounds"]
          /\ UNCHANGED err
  /\ UNCHANGED <<loc, bf, log, ret, Others>>

\* line 77: n = int(log_rounds)
ParseRounds(c) ==
  /\ pc[c] = "parse_rounds"
  /\ LET r == int(loc[c].log_rounds)
     IN  IF ~r.ok
         THEN /\ err' = [err EXCEPT ![c] = "IntError"]
              /\ pc' = [pc EXCEPT ![c] = "raised"]
              /\ UNCHANGED loc
         ELSE /\ loc' = [loc EXCEPT ![c].n = r.val]
              /\ pc' = [pc EXCEPT ![c] = "check_range"]
              /\ UNCHANGED err
  /\ UNCHANGED <<bf, log, ret, Others>>

\* lines 78-79
CheckRange(c) ==
  /\ pc[c] = "check_range"
  /\ IF loc[c].n > 31 \/ loc[c].n < 0
     THEN /\ err' = [err EXCEPT ![c] = "RangeError"]
          /\ pc' = [pc EXCEPT ![c] = "raised"]
     ELSE /\ pc' = [pc EXCEPT ![c] = "check_min"]
          /\ UNCHANGED err
  /\ UNCHANGED <<loc, bf, log, ret, Others>>

BelowMinRoundsLog(rounds) == rounds < 4

BelowMinRounds(rounds) == rounds < BCRYPT_MINROUNDS

\* lines 80-82: rounds = 1 << n, then the floor.  n is at most
\* MaxLogRounds here, so 1 << n is computed without overflow.
CheckMinRounds(c) ==
  /\ pc[c] = "check_min"
  /\ loc' = [loc EXCEPT ![c].rounds = 2 ^ loc[c].n]
  /\ IF BelowMinRounds(2 ^ loc[c].n)
     THEN /\ err' = [err EXCEPT ![c] = "RoundsError"]
          /\ pc' = [pc EXCEPT ![c] = "raised"]
     ELSE /\ pc' = [pc EXCEPT ![c] = "check_saltlen"]
          /\ UNCHANGED err
  /\ UNCHANGED <<bf, log, ret, Others>>

\* lines 85-86: the length test is on the encoded text (floor division)
CheckSaltLen(c) ==
  /\ pc[c] = "check_saltlen"
  /\ IF (Len(loc[c].b64salt) * 3) \div 4 # BCRYPT_SALTLEN
     THEN /\ err' = [err EXCEPT ![c] = "SaltLengthError"]
          /\ pc' = [pc EXCEPT ![c] = "raised"]
     ELSE /\ pc' = [pc EXCEPT ![c] = "decode"]
          /\ UNCHANGED err
  /\ UNCHANGED <<loc, bf, log, ret, Others>>

DecodeSaltAfterSetup(c) ==
  /\ pc[c] = "decode"
  /\ bf' = [bf EXCEPT ![c] = BlowfishInit]
  /\ log' = [log EXCEPT ![c] = Append(log[c], <<"EksBlowfish">>)]
  /\ LET r == _b64_decode(loc[c].b64salt)
     IN  IF ~r.ok
         THEN /\ err' = [err EXCEPT ![c] = "DecodeError"]
              /\ pc' = [pc EXCEPT ![c] = "raised"]
              /\ UNCHANGED loc
         ELSE /\ loc' = [loc EXCEPT ![c].raw_salt = r.bytes]
              /\ pc' = [pc EXCEPT ![c] = "key_len"]
              /\ UNCHANGED err
  /\ UNCHANGED <<ret, Others>>

\* line 89: raw_salt = _b64_decode(b64salt)
DecodeSalt(c) ==
  /\ pc[c] = "decode"
  /\ LET r == _b64_decode(loc[c].b64salt)
     IN  IF ~r.ok
         THEN /\ err' = [err EXCEPT ![c] = "DecodeError"]
              /\ pc' = [pc EXCEPT ![c] = "raised"]
              /\ UNCHANGED loc
         ELSE /\ loc' = [loc EXCEPT ![c].raw_salt = r.bytes]
              /\ pc' = [pc EXCEPT ![c] = "key_len"]
              /\ UNCHANGED err
  /\ UNCHANGED <<bf, log, ret, Others>>

KeyLenAlwaysNul(password, minor) == Len(password) + 1

KeyLen(password, minor) ==
  Len(password) + (IF Ord(minor) >= Ord("a") THEN 1 ELSE 0)

\* line 91
SetKeyLen(c) ==
  /\ pc[c] = "key_len"
  /\ loc' = [loc EXCEPT ![c].key_len = KeyLen(loc[c].password, loc[c].minor)]
  /\ pc' = [pc EXCEPT ![c] = "new_bf"]
  /\ UNCHANGED <<bf, log, err, ret, Others>>

\* line 94: bf = EksBlowfish()
NewBf(c) ==
  /\ pc[c] = "new_bf"
  /\ bf' = [bf EXCEPT ![BfSlot(c)] = BlowfishInit]
  /\ log' = [log EXCEPT ![c] = Append(log[c], <<"EksBlowfish">>)]
  /\ pc' = [pc EXCEPT ![c] = "expand_init"]
  /\ UNCHANGED <<loc, err, ret, Others>>

AfterIterationOneMore(k, rounds) ==
  IF k <= rounds THEN "expand_pw" ELSE "unpack_magic"

\* The loop test of "for k in xrange(rounds)" with k iterations done.
AfterIteration(k, rounds) == IF k < rounds THEN "expand_pw" ELSE "unpack_magic"

\* line 96: bf.expandkey(raw_salt, password, key_len)
ExpandInit(c) ==
  /\ pc[c] = "expand_init"
  /\ bf' = [bf EXCEPT ![BfSlot(c)] =
              expandkey(bf[BfSlot(c)], TRUE, loc[c].raw_salt,
                        loc[c].password, loc[c].key_len)]
  /\ log' = [log EXCEPT ![c] = Append(log[c],
              <<"expandkey", TRUE, loc[c].raw_salt, loc[c].password,
                loc[c].key_len>>)]
  /\ loc' = [loc EXCEPT ![c].k = 0]
  /\ pc' = [pc EXCEPT ![c] = AfterIteration(0, loc[c].rounds)]
  /\ UNCHANGED <<err, ret, Others>>

\* line 101: bf.expandkey(0, password, key_len)
ExpandPassword(c) ==
  /\ pc[c] = "expand_pw"
  /\ bf' = [bf EXCEPT ![BfSlot(c)] =
              expandkey(bf[BfSlot(c)], FALSE, <<>>,
                        loc[c].password, loc[c].key_len)]
  /\ log' = [log EXCEPT ![c] = Append(log[c],
              <<"expandkey", FALSE, <<>>, loc[c].password, loc[c].key_len>>)]
  /\ pc' = [pc EXCEPT ![c] = "expand_salt"]
  /\ UNCHANGED <<loc, err, ret, Others>>

\* line 102: bf.expandkey(0, raw_salt, BCRYPT_SALTLEN), end of iteration k
ExpandSalt(c) ==
  /\ pc[c] = "expand_salt"
  /\ bf' = [bf EXCEPT ![BfSlot(c)] =
              expandkey(bf[BfSlot(c)], FALSE, <<>>,
                        loc[c].raw_salt, BCRYPT_SALTLEN)]
  /\ log' = [log EXCEPT ![c] = Append(log[c],
              <<"expandkey", FALSE, <<>>, loc[c].raw_salt, BCRYPT_SALTLEN>>)]
  /\ loc' = [loc EXCEPT ![c].k = loc[c].k + 1]
  /\ pc' = [pc EXCEPT ![c] = AfterIteration(loc[c].k + 1, loc[c].rounds)]
  /\ UNCHANGED <<err, ret, Others>>

\* lines 106-107: ctext = list(struct.unpack(bit_format, BCRYPT_MAGICTEXT))
UnpackMagic(c) ==
  /\ pc[c] = "unpack_magic"
  /\ loc' = [loc EXCEPT ![c].ctext = Unpack(BCRYPT_MAGICTEXT),
                        ![c].i = 0, ![c].d = 0]
  /\ pc' = [pc EXCEPT ![c] = "cipher"]
  /\ UNCHANGED <<bf, log, err, ret, Others>>

EncryptPasses == 64

\* lines 108-111: one bf.cipher call on the pair (ctext[d], ctext[d+1]) of
\* pass i, then the bookkeeping of the two for loops.
CipherBlock(c) ==
  /\ pc[c] = "cipher"
  /\ LET d == loc[c].d
         r == cipher(bf[BfSlot(c)], loc[c].ctext[d + 1], loc[c].ctext[d + 2])
         ct == [loc[c].ctext EXCEPT ![d + 1] = r[1], ![d + 2] = r[2]]
         lastd == d + 2 >= BCRYPT_BLOCKS
         ni == IF lastd THEN loc[c].i + 1 ELSE loc[c].i
     IN  /\ loc' = [loc EXCEPT ![c].ctext = ct,
                               ![c].d = IF lastd THEN 0 ELSE d + 2,
                               ![c].i = ni]
         /\ pc' = [pc EXCEPT ![c] = IF ni < EncryptPasses THEN "cipher" ELSE "encode"]
  /\ log' = [log EXCEPT ![c] = Append(log[c], <<"cipher">>)]
  /\ UNCHANGED <<bf, err, ret, Others>>

\* line 116: result = _b64_encode(struct.pack(bit_format, *ctext)[:-1])
EncodeResult(c) ==
  /\ pc[c] = "encode"
  /\ LET packed == Pack(loc[c].ctext)
     IN  loc' = [loc EXCEPT ![c].result =
                   _b64_encode(SubSeq(packed, 1, Len(packed) - 1))]
  /\ pc' = [pc EXCEPT ![c] = "return"]
  /\ UNCHANGED <<bf, log, err, ret, Others>>

\* line 117: return salt + result
Return(c) ==
  /\ pc[c] = "return"
  /\ ret' = [ret EXCEPT ![c] = loc[c].salt \o loc[c].result]
  /\ pc' = [pc EXCEPT ![c] = "done"]
  /\ UNCHANGED <<loc, bf, log, err, Others>>

Step(c) ==
  \/ SplitSalt(c)
  \/ UnpackVersion(c)
  \/ CheckVersion(c)
  \/ ParseRounds(c)
  \/ CheckRange(c)
  \/ CheckMinRounds(c)
  \/ CheckSaltLen(c)
  \/ DecodeSalt(c)
  \/ SetKeyLen(c)
  \/ NewBf(c)
  \/ ExpandInit(c)
  \/ ExpandPassword(c)
  \/ ExpandSalt(c)
  \/ UnpackMagic(c)
  \/ CipherBlock(c)
  \/ EncodeResult(c)
  \/ Return(c)

---------------------------------------------------------------------------
(* gensalt *)

GenCosts == (0 - MaxNegCost)..MaxGenCost

\* line 55: _encode_salt(os.urandom(16), min(max(log_rounds, 4), 31))
Gensalt(log_rounds, rnd) ==
  /\ gpc = "idle"
  /\ \A c \in Calls : pc[c] = "idle"
  /\ genCost' = log_rounds
  /\ genOut' = gensalt(rnd, log_rounds)
  /\ gpc' = IF gensalt(rnd, log_rounds).err = "" THEN "returned" ELSE "raised"
  /\ UNCHANGED <<pc, loc, bf, log, err, ret, data, enc, dec, cpc>>

---------------------------------------------------------------------------
(* Inputs *)

PwBytes == {97}

Passwords == ByteStrings(PwBytes, MaxPwLen)

ZeroSalt == [i \in 1..16 |-> 0]

SeqSalt == [i \in 1..16 |-> (i * 37) % 256]

Versions ==
  { <<"2", "a">>, <<"2">>, <<"3", "a">>, <<"2", "b">>, <<"2", "Z">>, <<"1", "z">> }

CostTexts ==
  { Format02d(n) : n \in 4..MaxLogRounds }
    \cup { <<"4">>, <<"0", "3">>, <<"0", "0">>, <<"-", "1">>, <<"3", "2">>,
           <<"x", "x">>, <<>> }

SaltBodies ==
  { _b64_encode(ZeroSalt),                    \* 22 characters, 16 bytes
    _b64_encode(SeqSalt),
    Repeat(".", 21),                          \* too short
    Repeat(".", 23),                          \* too long
    Repeat("/", 20) \o <<"!", "!">>,          \* 22 characters, two skipped
    Repeat("/", 21) \o <<"!">>,               \* 22 characters, one skipped
    Repeat("/", 21) \o <<"+">> }              \* "+" is not a bcrypt symbol

SaltText(prefix, ver, cost, body) ==
  prefix \o <<"$">> \o ver \o <<"$">> \o cost \o <<"$">> \o body

CraftedSalts ==
  { SaltText(<<>>, v, k, b) : v \in Versions, k \in CostTexts, b \in SaltBodies }
    \cup { SaltText(<<"x">>, <<"2", "a">>, <<"0", "4">>, _b64_encode(ZeroSalt)),
           <<"$", "2", "a", "$", "0", "4">>,
           SaltText(<<>>, <<"2", "a">>, <<"0", "4">>, _b64_encode(ZeroSalt))
             \o <<"$">> }

\* The salt texts a caller passes: a stored one, or the one gensalt returned.
SaltInputs ==
  IF gpc = "idle" THEN CraftedSalts
  ELSE IF gpc = "returned" THEN {genOut.text}
  ELSE {}

\* Two threads hashing at once
ConcInputs ==
  { [password |-> <<97>>,
     salt |-> SaltText(<<>>, <<"2", "a">>, <<"0", "4">>, _b64_encode(ZeroSalt))],
    [password |-> <<97, 97>>,
     salt |-> SaltText(<<>>, <<"2", "a">>, <<"0", "4">>, _b64_encode(SeqSalt))],
    [password |-> <<97>>,
     salt |-> SaltText(<<>>, <<"2", "a">>, <<"0", "3">>, _b64_encode(ZeroSalt))] }

---------------------------------------------------------------------------
(* Specifications *)

InitCommon ==
  /\ pc = [c \in Calls |-> "idle"]
  /\ loc = [c \in Calls |-> NoLoc]
  /\ bf = [c \in Calls |-> NoBf]
  /\ log = [c \in Calls |-> <<>>]
  /\ err = [c \in Calls |-> ""]
  /\ ret = [c \in Calls |-> <<>>]
  /\ genCost = 0
  /\ genOut = [err |-> "", text |-> <<>>]
  /\ gpc = "idle"
  /\ enc = <<>>
  /\ dec = NoDec

\* One caller: gensalt and hashpw, one call at a time.
Init ==
  /\ InitCommon
  /\ data = <<>>
  /\ cpc = "off"

Next ==
  \/ \E n \in GenCosts, rnd \in Urandom16 : Gensalt(n, rnd)
  \/ \E p \in Passwords, s \in SaltInputs : CallHashpw(1, p, s)
  \/ Step(1)

Spec == Init /\ [][Next]_vars

\* Two hashpw calls whose statements interleave in any order.
NextConc ==
  \E c \in Calls :
    \/ \E inp \in ConcInputs : CallHashpw(c, inp.password, inp.salt)
    \/ Step(c)

SpecConc == Init /\ [][NextConc]_vars

\* The codec on its own: every byte string of the bounded set.
InitCodec ==
  /\ InitCommon
  /\ data \in ByteStrings(CodecBytes, MaxDataLen)
  /\ cpc = "start"

NextCodec == B64Encode \/ B64Decode

SpecCodec == InitCodec /\ [][NextCodec]_vars

---------------------------------------------------------------------------
(* hashpw as a function of its two arguments: the outcome of a call that   *)
(* runs from line 70 to line 117 with nothing else running.                *)

\* rounds iterations of the loop of lines 97-102, computed by halves: the
\* first half's state is a value before the second half starts from it.
RECURSIVE Amplify(_, _, _, _, _)
Amplify(s, password, raw_salt, key_len, rounds) ==
  IF rounds = 0 THEN s
  ELSE IF rounds = 1
  THEN expandkey(expandkey(s, FALSE, <<>>, password, key_len),
                 FALSE, <<>>, raw_salt, BCRYPT_SALTLEN)
  ELSE LET h == rounds \div 2
       IN  CHOOSE r \in { Amplify(t, password, raw_salt, key_len, rounds - h) :
                           t \in {Amplify(s, password, raw_salt, key_len, h)} } : TRUE

EncryptPass(s, ct) ==
  LET a == cipher(s, ct[1], ct[2])
      b == cipher(s, ct[3], ct[4])
      e == cipher(s, ct[5], ct[6])
  IN  <<a[1], a[2], b[1], b[2], e[1], e[2]>>

\* passes iterations of the loop of lines 108-111
RECURSIVE EncryptMagic(_, _, _)
EncryptMagic(s, ct, passes) ==
  IF passes = 0 THEN ct
  ELSE IF passes = 1 THEN EncryptPass(s, ct)
  ELSE LET h == passes \div 2
       IN  CHOOSE r \in { EncryptMagic(s, t, passes - h) :
                           t \in {EncryptMagic(s, ct, h)} } : TRUE

Raised(e) == [err |-> e, text |-> <<>>]

HashAlone(password, salt) ==
  LET f == Split(salt, "$") IN
  IF Len(f) # 4 \/ Len(f[2]) # 2 THEN Raised("FormatError")
  ELSE IF VersionExceeds(f[2][1], f[2][2]) THEN Raised("VersionError")
  ELSE IF ~int(f[3]).ok THEN Raised("IntError")
  ELSE IF int(f[3]).val > 31 \/ int(f[3]).val < 0 THEN Raised("RangeError")
  ELSE IF BelowMinRounds(2 ^ int(f[3]).val) THEN Raised("RoundsError")
  ELSE IF (Len(f[4]) * 3) \div 4 # BCRYPT_SALTLEN THEN Raised("SaltLengthError")
  ELSE IF ~_b64_decode(f[4]).ok THEN Raised("DecodeError")
  ELSE LET raw_salt == _b64_decode(f[4]).bytes
           key_len == KeyLen(password, f[2][2])
           s0 == expandkey(BlowfishInit, TRUE, raw_salt, password, key_len)
           s1 == Amplify(s0, password, raw_salt, key_len, 2 ^ int(f[3]).val)
           packed == Pack(EncryptMagic(s1, Unpack(BCRYPT_MAGICTEXT), EncryptPasses))
       IN  [err |-> "",
            text |-> salt \o _b64_encode(SubSeq(packed, 1, Len(packed) - 1))]

---------------------------------------------------------------------------
(* Properties *)

InBcryptAlphabet(text) == \A i \in 1..Len(text) : Contains(B64_CHARS_BCRYPT, text[i])

IsDigit(ch) == Contains(Digits, ch)

\* The cost a salt text carries, read from the text itself.
HasCost(salt) == Len(Split(salt, "$")) = 4 /\ int(Split(salt, "$")[3]).ok

CostOf(salt) == int(Split(salt, "$")[3]).val

BeforeRangeCheck == {"split", "unpack_ver", "check_ver", "parse_rounds", "check_range"}

\* C1: a call whose salt text carries a cost outside [4, 31] never gets past
\* the two cost checks and returns nothing: a cost below 0 or above 31 stops
\* at the range check, a cost of 0..3 passes it and stops at the rounds
\* floor; the cipher object exists only for costs 4..31.
C1_CostOutsideRangeRaises ==
  \A c \in Calls :
    (pc[c] # "idle" /\ HasCost(loc[c].salt)) =>
      LET cost == CostOf(loc[c].salt) IN
        /\ (cost < 0 \/ cost > 31) =>
              /\ pc[c] \in BeforeRangeCheck \cup {"raised"}
              /\ err[c] \in {"", "FormatError", "VersionError", "RangeError"}
        /\ cost \in 0..3 =>
              /\ pc[c] \in BeforeRangeCheck \cup {"check_min", "raised"}
              /\ err[c] \in {"", "FormatError", "VersionError", "RoundsError"}
        /\ err[c] = "RangeError" => (cost < 0 \/ cost > 31)
        /\ err[c] = "RoundsError" => cost \in 0..3
        /\ cost \notin 4..31 => (log[c] = <<>> /\ ret[c] = <<>> /\ bf[c] = NoBf)

C1_Witness ==
  \E c \in Calls :
    /\ err[c] = "RoundsError"
    /\ loc[c].log_rounds = <<"0", "3">>
    /\ loc[c].rounds = 8

\* C2: the version check raises exactly when the parsed (major, minor) is
\* greater than ('2', 'a') as a tuple: a greater major, or major '2' with a
\* minor above 'a'.  Every other pair, a minor below 'a' included, passes.
C2_VersionCheck ==
  \A c \in Calls :
    LET exceeds == \/ Ord(loc[c].major) > 50
                   \/ Ord(loc[c].major) = 50 /\ Ord(loc[c].minor) > 97
        checked == loc[c].major # ""
                   /\ pc[c] \notin {"idle", "split", "unpack_ver", "check_ver"}
    IN  /\ err[c] = "VersionError" => (loc[c].major # "" /\ exceeds)
        /\ checked => (err[c] = "VersionError" <=> exceeds)

C2_Witness ==
  \E c \in Calls :
    /\ loc[c].hash_ver = <<"1", "z">>
    /\ pc[c] = "parse_rounds"
    /\ err[c] = ""

\* C3: whenever expandkey has been called, the raw salt it was given is
\* exactly 16 bytes long.
C3_RawSaltIs16Bytes ==
  \A c \in Calls :
    \A j \in 1..Len(log[c]) :
      log[c][j][1] = "expandkey" => Len(loc[c].raw_salt) = 16

\* C4: a returned text has the EncodedHash shape: 60 characters,
\* '$' major minor '$' two decimal digits '$', then 22 + 31 characters of
\* the bcrypt alphabet.
C4_ReturnedHashShape ==
  \A c \in Calls :
    pc[c] = "done" =>
      /\ Len(ret[c]) = 60
      /\ ret[c][1] = "$" /\ ret[c][4] = "$" /\ ret[c][7] = "$"
      /\ IsDigit(ret[c][5]) /\ IsDigit(ret[c][6])
      /\ InBcryptAlphabet(SubSeq(ret[c], 8, 60))

\* C5: the calls on the cipher object are, in order: its construction, one
\* expandkey(raw_salt, password, key_len), then 2^cost times
\* expandkey(0, password, key_len) followed by expandkey(0, raw_salt, 16),
\* and only then block encryptions: 1 + 2 * 2^cost expansions before the
\* first cipher call.
C5_KeyScheduleOrder ==
  \A c \in Calls :
    LET L == log[c]
        nexp == 1 + (2 * (2 ^ loc[c].n))
    IN  /\ \A j \in 1..Len(L) :
             L[j] = IF j = 1 THEN <<"EksBlowfish">>
                    ELSE IF j = 2
                    THEN <<"expandkey", TRUE, loc[c].raw_salt,
                           loc[c].password, loc[c].key_len>>
                    ELSE IF j > 1 + nexp THEN <<"cipher">>
                    ELSE IF j % 2 = 1
                    THEN <<"expandkey", FALSE, <<>>, loc[c].password,
                           loc[c].key_len>>
                    ELSE <<"expandkey", FALSE, <<>>, loc[c].raw_salt, 16>>
        /\ pc[c] = "cipher" => Len(L) >= 1 + nexp
        /\ pc[c] \in {"encode", "return", "done"} =>
             Len(L) = 1 + nexp + (EncryptPasses * 3)

C5_Witness ==
  \E c \in Calls :
    /\ pc[c] = "done"
    /\ loc[c].n = 5
    /\ Len(log[c]) = 1 + 65 + 192

\* C6: a call that raises has not created the cipher object nor made any
\* expandkey or cipher call.
C6_FailFast ==
  \A c \in Calls :
    /\ (pc[c] = "raised") <=> (err[c] # "")
    /\ err[c] # "" => (log[c] = <<>> /\ bf[c] = NoBf /\ ret[c] = <<>>)

C6_Witness ==
  \E c \in Calls :
    /\ err[c] = "DecodeError"
    /\ Len(loc[c].b64salt) = 22

\* C7: gensalt never raises; it returns '$2a$NN$' and 22 characters of the
\* bcrypt alphabet, NN being two decimal digits whose value is the cost
\* clamped into [4, 31].
C7_GensaltCostField ==
  /\ gpc # "raised"
  /\ gpc = "returned" =>
       LET t == genOut.text
           clamped == IF genCost < 4 THEN 4
                      ELSE IF genCost > 31 THEN 31 ELSE genCost
       IN  /\ genOut.err = ""
           /\ Len(t) = 29
           /\ SubSeq(t, 1, 4) = <<"$", "2", "a", "$">>
           /\ IsDigit(t[5]) /\ IsDigit(t[6]) /\ t[7] = "$"
           /\ ((IndexOf(Digits, t[5]) - 1) * 10) + (IndexOf(Digits, t[6]) - 1)
                = clamped
           /\ InBcryptAlphabet(SubSeq(t, 8, 29))

C7_Witness ==
  /\ gpc = "returned"
  /\ genCost > 31
  /\ SubSeq(genOut.text, 5, 6) = <<"3", "1">>

\* C8: every expandkey call keyed with the password gets the key length
\* len(password) + 1 when minor >= 'a' and len(password) otherwise; every
\* call keyed with the salt gets 16.
C8_KeyLength ==
  \A c \in Calls :
    \A j \in 1..Len(log[c]) :
      LET e == log[c][j]
          pwlen == IF Ord(loc[c].hash_ver[2]) >= 97
                   THEN Len(loc[c].password) + 1
                   ELSE Len(loc[c].password)
      IN  e[1] = "expandkey" =>
            IF j = 2 \/ j % 2 = 1
            THEN e[4] = loc[c].password /\ e[5] = pwlen
            ELSE e[4] = loc[c].raw_salt /\ e[5] = 16

C8_Witness ==
  \E c \in Calls :
    /\ pc[c] = "done"
    /\ loc[c].minor = "Z"
    /\ Len(loc[c].password) = 1
    /\ log[c][3][5] = 1

\* C9: decoding the encoding of a byte string gives the byte string back,
\* and the encoded text has bcrypt-alphabet characters only (no padding).
C9_CodecRoundTrip ==
  /\ cpc \in {"encoded", "decoded"} =>
       /\ InBcryptAlphabet(enc)
       /\ Len(enc) = ((Len(data) * 4) + 2) \div 3
  /\ cpc = "decoded" => (dec.ok /\ dec.bytes = data)

C9_Witness ==
  /\ cpc = "decoded"
  /\ Len(data) = 2
  /\ Len(enc) = 3
  /\ dec.bytes = data

\* The cipher state of a call that has done the initial expansion and k loop
\* iterations, run alone.
ScheduleAlone(c, k) ==
  Amplify(expandkey(BlowfishInit, TRUE, loc[c].raw_salt, loc[c].password,
                    loc[c].key_len),
          loc[c].password, loc[c].raw_salt, loc[c].key_len, k)

\* C10: with two calls interleaved in any order, each call has a fresh
\* cipher state of its own, finishes the key schedule with the state it has
\* when run alone, ends as it ends when run alone, and two calls with the
\* same arguments end alike.
C10_CallsIndependent ==
  /\ \A c \in Calls :
       /\ pc[c] = "expand_init" => bf[c] = BlowfishInit
       /\ (pc[c] = "expand_pw" /\ loc[c].k = 0) => bf[c] = ScheduleAlone(c, 0)
       /\ pc[c] = "unpack_magic" => bf[c] = ScheduleAlone(c, loc[c].rounds)
       /\ pc[c] = "done" =>
            (HashAlone(loc[c].password, loc[c].salt).err = ""
             /\ ret[c] = HashAlone(loc[c].password, loc[c].salt).text)
       /\ pc[c] = "raised" =>
            err[c] = HashAlone(loc[c].password, loc[c].salt).err
  /\ \A c1, c2 \in Calls :
       (/\ pc[c1] = "done" /\ pc[c2] = "done"
        /\ loc[c1].password = loc[c2].password
        /\ loc[c1].salt = loc[c2].salt) => ret[c1] = ret[c2]

C10_Witness ==
  /\ pc[1] = "done" /\ pc[2] = "done"
  /\ loc[1].salt # loc[2].salt
  /\ ret[1] # ret[2]

=============================================================================
